---- MODULE Spec2Model ----
\* Federation engine of crates/apub: inbound Delete and Undo-Follow activities
\* (verify, ledger insert, resolve, apply) and the domain policy of lib.rs.
EXTENDS Naturals, FiniteSets, Sequences, TLC

\* ---------------------------------------------------------------- bounds
\* Number of receive calls (deliveries) that may run concurrently.
NumCalls == 2

Calls == 1..NumCalls

\* Activity ids that may be delivered; one inbound activity per id.
ActIds == {"a1", "a2"}

\* ---------------------------------------------------------------- values
\* Option<T>: None is the empty sequence, Some(v) the one-element sequence.
None == <<>>

Some(v) == <<v>>

is_some(o) == o # None

unwrap(o) == o[1]

LocalDomain == "local.example"

GoodDomain == "good.example"

EvilDomain == "evil.example"

\* Persons known to the object store, with the domain of their actor id.
Persons == {"m1", "p1", "p2", "u2", "e1"}

PersonDomain(p) == IF p = "e1" THEN EvilDomain ELSE GoodDomain

\* Entities of the object store by kind; "missing" resolves to nothing.
Posts == {"post_p1"}

Comments == {"comment_c1"}

Communities == {"comm_remote", "comm_local"}

PrivateMessages == {"pm1"}

Entities == Posts \cup Comments \cup Communities \cup PrivateMessages

ObjectIds == Entities \cup {"missing"}

\* Community.local of the two communities.
community_local(c) == c = "comm_local"

\* DeletableObjects::read_from_db: the kind an object id resolves to.
read_from_db(object) ==
  IF object \in Communities THEN "Community"
  ELSE IF object \in Posts THEN "Post"
  ELSE IF object \in Comments THEN "Comment"
  ELSE IF object \in PrivateMessages THEN "PrivateMessage"
  ELSE "NotFound"

\* UserOrCommunity dereference of a followee id.
deref_user_or_community(object) ==
  IF object \in Communities THEN "Community"
  ELSE IF object \in Persons THEN "User"
  ELSE "NotFound"

\* Inbound Delete activities: summary absent, empty or non-empty, any object.
DeleteActivities ==
  { [kind |-> "Delete", actor |-> "m1", id_domain |-> GoodDomain,
     summary |-> s, object |-> o, inner_actor |-> "m1"] :
       s \in {None, Some(""), Some("spam")}, o \in ObjectIds }
  \cup
  { [kind |-> "Delete", actor |-> a, id_domain |-> d,
     summary |-> Some("spam"), object |-> "post_p1", inner_actor |-> a] :
       a \in {"m1", "e1"}, d \in {GoodDomain, EvilDomain} }

\* Inbound Undo-Follow activities: outer actor p1, inner Follow by p1 or p2.
UndoFollowActivities ==
  { [kind |-> "UndoFollow", actor |-> "p1", id_domain |-> GoodDomain,
     summary |-> None, object |-> o, inner_actor |-> ia] :
       o \in {"u2", "comm_remote", "missing"}, ia \in {"p1", "p2"} }
  \cup
  { [kind |-> "UndoFollow", actor |-> "e1", id_domain |-> EvilDomain,
     summary |-> None, object |-> "comm_remote", inner_actor |-> "e1"] }

Activities == DeleteActivities \cup UndoFollowActivities

NoId == "none"

\* ---------------------------------------------------------------- state
VARIABLES
  act,                \* the inbound activity carried by each activity id
  site,               \* instance tables: local_site, allowlist, blocklist
  pc,                 \* position of each receive call
  cid,                \* activity id each call delivers
  result,             \* what each call returned to its caller
  ins,                \* outcome of each call's ledger insert
  ledger,             \* activity table
  removed,            \* removed flag of each entity
  deleted,            \* deleted flag of each entity
  mod_log,            \* moderation log rows
  notes,              \* notifications requested
  writes,             \* entity-store writes performed (by call)
  person_follower,    \* PersonFollower rows <<person_id, follower_id>>
  community_follower, \* CommunityFollower rows <<community_id, person_id>>
  query,              \* the apub id under evaluation: its domain and scheme
  verdict             \* results of the policy functions for the query

policy == <<query, verdict>>

vars == <<policy, act, site, pc, cid, result, ins, ledger, removed, deleted, mod_log,
          notes, writes, person_follower, community_follower>>

stores == <<removed, deleted, mod_log, notes, writes, person_follower,
            community_follower>>

Settings == [hostname |-> LocalDomain, protocol |-> "https"]

\* ---------------------------------------------------------------- domain policy
\* fetch_local_site_data without the conversion of empty vectors to None.
fetch_local_site_data_raw(tables) ==
  [local_site |-> tables.local_site,
   allowed_instances |-> Some(tables.allowlist),
   blocked_instances |-> Some(tables.blocklist)]

\* `(!allowed.is_empty()).then_some(allowed)`, the same for blocked.
fetch_local_site_data(tables) ==
  [local_site |-> tables.local_site,
   allowed_instances |->
     IF tables.allowlist # {} THEN Some(tables.allowlist) ELSE None,
   blocked_instances |->
     IF tables.blocklist # {} THEN Some(tables.blocklist) ELSE None]

\* check_apub_id_valid without the early return for the local domain.
check_apub_id_valid_nolocal(domain, scheme, local_site_data, settings) ==
  IF ~(IF is_some(local_site_data.local_site)
       THEN unwrap(local_site_data.local_site).federation_enabled
       ELSE TRUE)
  THEN "Federation disabled"
  ELSE IF scheme # settings.protocol THEN "Invalid protocol scheme"
  ELSE IF is_some(local_site_data.blocked_instances)
          /\ domain \in unwrap(local_site_data.blocked_instances)
  THEN "Domain is blocked"
  ELSE IF is_some(local_site_data.allowed_instances)
          /\ domain \notin unwrap(local_site_data.allowed_instances)
  THEN "Domain is not in allowlist"
  ELSE "Ok"

\* check_apub_id_valid without the allowlist test.
check_apub_id_valid_noallow(domain, scheme, local_site_data, settings) ==
  IF domain = settings.hostname THEN "Ok"
  ELSE IF ~(IF is_some(local_site_data.local_site)
            THEN unwrap(local_site_data.local_site).federation_enabled
            ELSE TRUE)
  THEN "Federation disabled"
  ELSE IF scheme # settings.protocol THEN "Invalid protocol scheme"
  ELSE IF is_some(local_site_data.blocked_instances)
          /\ domain \in unwrap(local_site_data.blocked_instances)
  THEN "Domain is blocked"
  ELSE "Ok"

\* check_apub_id_valid without the blocklist test.
check_apub_id_valid_noblock(domain, scheme, local_site_data, settings) ==
  IF domain = settings.hostname THEN "Ok"
  ELSE IF ~(IF is_some(local_site_data.local_site)
            THEN unwrap(local_site_data.local_site).federation_enabled
            ELSE TRUE)
  THEN "Federation disabled"
  ELSE IF scheme # settings.protocol THEN "Invalid protocol scheme"
  ELSE IF is_some(local_site_data.allowed_instances)
          /\ domain \notin unwrap(local_site_data.allowed_instances)
  THEN "Domain is not in allowlist"
  ELSE "Ok"

check_apub_id_valid(domain, scheme, local_site_data, settings) ==
  IF domain = settings.hostname THEN "Ok"
  ELSE IF ~(IF is_some(local_site_data.local_site)
            THEN unwrap(local_site_data.local_site).federation_enabled
            ELSE TRUE)
  THEN "Federation disabled"
  ELSE IF scheme # settings.protocol THEN "Invalid protocol scheme"
  ELSE IF is_some(local_site_data.blocked_instances)
          /\ domain \in unwrap(local_site_data.blocked_instances)
  THEN "Domain is blocked"
  ELSE IF is_some(local_site_data.allowed_instances)
          /\ domain \notin unwrap(local_site_data.allowed_instances)
  THEN "Domain is not in allowlist"
  ELSE "Ok"

check_apub_id_valid_with_strictness(domain, scheme, is_strict, local_site_data, settings) ==
  LET first == check_apub_id_valid(domain, scheme, local_site_data, settings) IN
  IF first # "Ok" THEN first
  ELSE IF domain = settings.hostname THEN "Ok"
  ELSE IF is_some(local_site_data.allowed_instances)
          /\ is_strict
          /\ domain \notin (unwrap(local_site_data.allowed_instances)
                              \cup {settings.hostname})
  THEN "Federation forbidden by strict allowlist"
  ELSE "Ok"

\* VerifyUrlData::verify: the policy snapshot is read for each evaluation.
VerifyUrlData_verify(domain, tables) ==
  check_apub_id_valid(domain, Settings.protocol, fetch_local_site_data(tables), Settings)

\* Domain policy of an inbound activity: the id's domain, then the actor's.
verify_domains(a, tables) ==
  IF VerifyUrlData_verify(a.id_domain, tables) # "Ok" THEN "DomainRejected"
  ELSE IF VerifyUrlData_verify(PersonDomain(a.actor), tables) # "Ok" THEN "DomainRejected"
  ELSE "Ok"

\* verify_urls_match(outer actor, inner actor)
verify_urls_match(a, b) == IF a = b THEN "Ok" ELSE "ActorMismatch"

\* ---------------------------------------------------------------- verify
\* verify_delete_activity: domain policy of the id and of the actor.
verify_delete_activity(a, tables) == verify_domains(a, tables)

\* Delete::verify
Delete_verify(a, tables) == verify_delete_activity(a, tables)

\* Follow::verify of the inner Follow and verify_person: both actor and
\* followee must resolve and pass the domain policy.
verify_person_and_follow(a, tables) ==
  IF verify_domains(a, tables) # "Ok" THEN "DomainRejected"
  ELSE IF deref_user_or_community(a.object) = "NotFound" THEN "Unresolved"
  ELSE "Ok"

\* UndoFollow::verify without the comparison of the two actors.
UndoFollow_verify_nomatch(a, tables) == verify_person_and_follow(a, tables)

\* UndoFollow::verify: the actor comparison comes first.
UndoFollow_verify(a, tables) ==
  IF verify_urls_match(a.actor, a.inner_actor) # "Ok" THEN "ActorMismatch"
  ELSE verify_person_and_follow(a, tables)

ActivityHandler_verify(a, tables) ==
  IF a.kind = "Delete" THEN Delete_verify(a, tables) ELSE UndoFollow_verify(a, tables)

\* ---------------------------------------------------------------- ledger
\* Activity::create: the unique index on ap_id decides, inside the insert.
Activity_create(led, form) ==
  IF \E row \in led : row.ap_id = form.ap_id
  THEN [res |-> "Conflict", ledger |-> led]
  ELSE [res |-> "Inserted", ledger |-> led \cup {form}]

ActivityInsertForm(ap_id, activity, local, sensitive) ==
  [ap_id |-> ap_id, data |-> activity, local |-> Some(local),
   sensitive |-> Some(sensitive), updated |-> None]

\* insert_activity with the error of Activity::create dropped.
insert_activity_ignore_err(led, ap_id, activity, local, sensitive) ==
  LET r == Activity_create(led, ActivityInsertForm(ap_id, activity, local, sensitive)) IN
  [res |-> "Ok", ledger |-> r.ledger]

\* insert_activity that builds the form and never writes it.
insert_activity_no_write(led, ap_id, activity, local, sensitive) ==
  [res |-> "Ok", ledger |-> led]

\* insert_activity that rewrites the row on conflict and reports success.
insert_activity_upsert(led, ap_id, activity, local, sensitive) ==
  LET form == ActivityInsertForm(ap_id, activity, local, sensitive) IN
  [res |-> "Ok",
   ledger |-> {row \in led : row.ap_id # ap_id}
                \cup {IF \E row \in led : row.ap_id = ap_id
                      THEN [form EXCEPT !.updated = Some("now")] ELSE form}]

\* insert_activity: `Activity::create(..).await?; Ok(())`.
insert_activity(led, ap_id, activity, local, sensitive) ==
  LET r == Activity_create(led, ActivityInsertForm(ap_id, activity, local, sensitive)) IN
  IF r.res = "Inserted" THEN [res |-> "Ok", ledger |-> r.ledger]
  ELSE [res |-> r.res, ledger |-> r.ledger]

\* The `sensitive` argument each handler passes to insert_activity.
receive_sensitive(a) == a.kind = "UndoFollow"

\* ---------------------------------------------------------------- Delete
\* `if let Some(reason) = self.summary` taken for every summary.
DeletePath_always_remove(summary) == "remove"

\* `if let Some(reason) = self.summary`: remove with a summary, delete without.
DeletePath(summary) == IF is_some(summary) THEN "remove" ELSE "delete"

\* The reason handed on as it came.
normalize_reason_identity(reason) == Some(reason)

\* `if reason.is_empty() { None } else { Some(reason) }`
normalize_reason(reason) == IF reason = "" THEN None ELSE Some(reason)

\* receive_remove_action without the community.local test.
remove_branch_no_guard(object) ==
  LET k == read_from_db(object) IN
  IF k = "NotFound" THEN "ObjectNotFound"
  ELSE IF k = "PrivateMessage" THEN "Panic"
  ELSE "Create"

\* receive_remove_action up to its first write: the match on the resolved object.
remove_branch(object) ==
  LET k == read_from_db(object) IN
  IF k = "NotFound" THEN "ObjectNotFound"
  ELSE IF k = "Community" /\ community_local(object) THEN "Forbidden"
  ELSE IF k = "PrivateMessage" THEN "Panic"
  ELSE "Create"

ModTable(object) ==
  LET k == read_from_db(object) IN
  IF k = "Community" THEN "ModRemoveCommunity"
  ELSE IF k = "Post" THEN "ModRemovePost"
  ELSE "ModRemoveComment"

\* The post operation code sent for every kind.
NotifyOp_post(object) == "RemovePost"

NotifyOp(object) ==
  LET k == read_from_db(object) IN
  IF k = "Community" THEN "RemoveCommunity"
  ELSE IF k = "Post" THEN "RemovePost"
  ELSE "RemoveComment"

\* ModRemove{Community,Post,Comment}Form built by receive_remove_action.
ModRemoveForm(actor, object, reason, c) ==
  [table |-> ModTable(object), mod_person_id |-> actor, target |-> object,
   removed |-> Some(TRUE), reason |-> reason, by |-> c]

\* receive_delete_action: locate the object, then set its deleted flag.
delete_branch(object) ==
  IF read_from_db(object) = "NotFound" THEN "ObjectNotFound" ELSE "Update"

\* A form that names the followee only, matching every follower.
UnfollowRows_all(object, person) == {<<object, p>> : p \in Persons}

\* PersonFollowerForm {person_id: u.id, follower_id: person.id} and
\* CommunityFollowerForm {community_id: c.id, person_id: person.id}.
UnfollowRows(object, person) == {<<object, person>>}

\* Followable::unfollow: delete the matching row, Ok when there is none.
unfollow(rows, form) == rows \ form

\* Which entity-store call the apply step of an activity makes.
WriteStore(a) ==
  IF a.kind = "UndoFollow" THEN "unfollow"
  ELSE IF DeletePath(a.summary) = "remove" THEN "removed"
  ELSE "deleted"

\* ---------------------------------------------------------------- actions
NoQuery == [domain |-> "none", scheme |-> "none"]

NoVerdict == [plain |-> "none", strict |-> "none", permissive |-> "none"]

\* Follow relationships at the start: p1 follows comm_remote but not u2.
PersonFollower0 == {<<"u2", "p2">>}

CommunityFollower0 == {<<"comm_remote", "p1">>, <<"comm_remote", "p2">>}

\* No call has been delivered and the stores hold their first rows.
InitStores ==
  /\ pc = [c \in Calls |-> "Idle"]
  /\ cid = [c \in Calls |-> NoId]
  /\ result = [c \in Calls |-> "none"]
  /\ ins = [c \in Calls |-> "none"]
  /\ ledger = {}
  /\ removed = [e \in Entities |-> FALSE]
  /\ deleted = [e \in Entities |-> FALSE]
  /\ mod_log = {}
  /\ notes = {}
  /\ writes = {}
  /\ person_follower = PersonFollower0
  /\ community_follower = CommunityFollower0

Init ==
  /\ act \in [ActIds -> Activities]
  /\ site = [local_site |-> Some([federation_enabled |-> TRUE]),
             allowlist |-> {}, blocklist |-> {EvilDomain}]
  /\ query = NoQuery
  /\ verdict = NoVerdict
  /\ InitStores

Finish(c, r) ==
  /\ pc' = [pc EXCEPT ![c] = "Done"]
  /\ result' = [result EXCEPT ![c] = r]

Goto(c, p) ==
  /\ pc' = [pc EXCEPT ![c] = p]
  /\ UNCHANGED result

\* An activity arrives at the inbox.
Deliver(c) ==
  /\ pc[c] = "Idle"
  /\ \E id \in ActIds : cid' = [cid EXCEPT ![c] = id]
  /\ Goto(c, "Verifying")
  /\ UNCHANGED <<policy, act, site, ins, ledger, stores>>

\* ActivityHandler::verify; receive is called only when it returns Ok.
Verify(c) ==
  /\ pc[c] = "Verifying"
  /\ LET v == ActivityHandler_verify(act[cid[c]], site) IN
       IF v = "Ok" THEN Goto(c, "Deduplicating") ELSE Finish(c, v)
  /\ UNCHANGED <<policy, act, site, cid, ins, ledger, stores>>

\* First statement of receive: insert_activity(&self.id, &self, false, _).await?
Insert(c) ==
  /\ pc[c] = "Deduplicating"
  /\ LET a == act[cid[c]]
         r == insert_activity(ledger, cid[c], a, FALSE, receive_sensitive(a)) IN
       /\ ledger' = r.ledger
       /\ ins' = [ins EXCEPT ![c] =
                    IF \E row \in ledger : row.ap_id = cid[c]
                    THEN "Duplicate" ELSE "Inserted"]
       /\ IF r.res = "Ok" THEN Goto(c, "Resolving") ELSE Finish(c, r.res)
  /\ UNCHANGED <<policy, act, site, cid, stores>>

\* self.actor.dereference(context).await? fails.
ResolveActorFails(c) ==
  /\ pc[c] = "Resolving"
  /\ \/ act[cid[c]].kind = "UndoFollow"
     \/ DeletePath(act[cid[c]].summary) = "remove"
  /\ Finish(c, "ActorNotFound")
  /\ UNCHANGED <<policy, act, site, cid, ins, ledger, stores>>

\* The actor resolves; the object is looked up and the branch chosen.
Resolve(c) ==
  /\ pc[c] = "Resolving"
  /\ LET a == act[cid[c]]
         b == IF a.kind = "UndoFollow"
              THEN (IF deref_user_or_community(a.object) = "NotFound"
                    THEN "ObjectNotFound" ELSE "Update")
              ELSE IF DeletePath(a.summary) = "remove" THEN remove_branch(a.object)
              ELSE delete_branch(a.object) IN
       IF b = "Create" THEN Goto(c, "Creating")
       ELSE IF b = "Update" THEN Goto(c, "Updating")
       ELSE Finish(c, b)
  /\ UNCHANGED <<policy, act, site, cid, ins, ledger, stores>>

\* ModRemove*::create(context.pool(), &form).await?
Create(c) ==
  /\ pc[c] = "Creating"
  /\ LET a == act[cid[c]] IN
       mod_log' = mod_log \cup
         {ModRemoveForm(a.actor, a.object, normalize_reason(unwrap(a.summary)), c)}
  /\ Goto(c, "Updating")
  /\ UNCHANGED <<policy, act, site, cid, ins, ledger, removed, deleted, notes, writes,
                 person_follower, community_follower>>

\* A storage error that also takes the call's row out of the activity table.
StorageFails_release(c) ==
  /\ pc[c] \in {"Creating", "Updating", "Notifying"}
  /\ Finish(c, "StorageFailure")
  /\ ledger' = {row \in ledger : row.ap_id # cid[c]}
  /\ UNCHANGED <<policy, act, site, cid, ins, stores>>

\* A storage call of the apply step returns an error, propagated by `?`.
StorageFails(c) ==
  /\ pc[c] \in {"Creating", "Updating", "Notifying"}
  /\ Finish(c, "StorageFailure")
  /\ UNCHANGED <<policy, act, site, cid, ins, ledger, stores>>

\* The entity write: removed flag, deleted flag, or unfollow.
Update(c) ==
  /\ pc[c] = "Updating"
  /\ LET a == act[cid[c]] IN
       /\ writes' = writes \cup {[by |-> c, store |-> WriteStore(a), target |-> a.object]}
       /\ IF a.kind = "UndoFollow"
          THEN /\ IF deref_user_or_community(a.object) = "User"
                  THEN /\ person_follower' =
                            unfollow(person_follower, UnfollowRows(a.object, a.actor))
                       /\ UNCHANGED community_follower
                  ELSE /\ community_follower' =
                            unfollow(community_follower, UnfollowRows(a.object, a.actor))
                       /\ UNCHANGED person_follower
               /\ UNCHANGED <<removed, deleted>>
               /\ Finish(c, "Ok")
          ELSE IF DeletePath(a.summary) = "remove"
          THEN /\ removed' = [removed EXCEPT ![a.object] = TRUE]
               /\ UNCHANGED <<deleted, person_follower, community_follower>>
               /\ Goto(c, "Notifying")
          ELSE /\ deleted' = [deleted EXCEPT ![a.object] = TRUE]
               /\ UNCHANGED <<removed, person_follower, community_follower>>
               /\ Finish(c, "Ok")
  /\ UNCHANGED <<policy, act, site, cid, ins, ledger, mod_log, notes>>

\* send_*_ws_message(..).await?; Ok(())
Notify(c) ==
  /\ pc[c] = "Notifying"
  /\ LET a == act[cid[c]] IN
       notes' = notes \cup {[op |-> NotifyOp(a.object), entity |-> a.object, by |-> c]}
  /\ Finish(c, "Ok")
  /\ UNCHANGED <<policy, act, site, cid, ins, ledger, removed, deleted, mod_log, writes,
                 person_follower, community_follower>>

Next ==
  \E c \in Calls :
    \/ Deliver(c)
    \/ Verify(c)
    \/ Insert(c)
    \/ ResolveActorFails(c)
    \/ Resolve(c)
    \/ Create(c)
    \/ StorageFails(c)
    \/ Update(c)
    \/ Notify(c)

Spec == Init /\ [][Next]_vars

\* Every step a delivered call can take.
CallStep(c) ==
  \/ Verify(c) \/ Insert(c) \/ Resolve(c) \/ Create(c) \/ Update(c) \/ Notify(c)
  \/ ResolveActorFails(c) \/ StorageFails(c)

\* The runtime keeps polling a task that can make progress.
FairSpec == Spec /\ \A c \in Calls : WF_vars(CallStep(c))

\* ---------------------------------------------------------------- policy evaluation
\* Domains that may be listed in the instance tables or be the candidate.
PolicyDomains == {LocalDomain, GoodDomain, EvilDomain}

Schemes == {"https", "http"}

\* LocalSite may be missing; when present it carries federation_enabled.
LocalSites == {None} \cup {Some([federation_enabled |-> f]) : f \in BOOLEAN}

\* Contents of the instance tables: every allowlist and blocklist, empty too.
SiteTables ==
  [local_site : LocalSites, allowlist : SUBSET PolicyDomains,
   blocklist : SUBSET PolicyDomains]

Queries == [domain : PolicyDomains, scheme : Schemes]

PolicyInit ==
  /\ act = [id \in ActIds |-> CHOOSE a \in Activities : a.object = "missing"
                                   /\ a.kind = "Delete" /\ a.summary = None]
  /\ site \in SiteTables
  /\ query \in Queries
  /\ verdict = NoVerdict
  /\ InitStores

pipeline == <<act, site, pc, cid, result, ins, ledger, stores>>

\* VerifyUrlData::verify: fetch_local_site_data, then check_apub_id_valid.
EvaluatePlain ==
  /\ verdict.plain = "none"
  /\ verdict' = [verdict EXCEPT !.plain =
       check_apub_id_valid(query.domain, query.scheme,
                           fetch_local_site_data(site), Settings)]
  /\ UNCHANGED <<query, pipeline>>

\* check_apub_id_valid_with_strictness(apub_id, true, ..)
EvaluateStrict ==
  /\ verdict.strict = "none"
  /\ verdict' = [verdict EXCEPT !.strict =
       check_apub_id_valid_with_strictness(query.domain, query.scheme, TRUE,
                                           fetch_local_site_data(site), Settings)]
  /\ UNCHANGED <<query, pipeline>>

\* check_apub_id_valid_with_strictness(apub_id, false, ..)
EvaluatePermissive ==
  /\ verdict.permissive = "none"
  /\ verdict' = [verdict EXCEPT !.permissive =
       check_apub_id_valid_with_strictness(query.domain, query.scheme, FALSE,
                                           fetch_local_site_data(site), Settings)]
  /\ UNCHANGED <<query, pipeline>>

PolicyNext == EvaluatePlain \/ EvaluateStrict \/ EvaluatePermissive

SpecPolicy == PolicyInit /\ [][PolicyNext]_vars

\* ---------------------------------------------------------------- observations
Delivered(c) == cid[c] # NoId

ActOf(c) == act[cid[c]]

WritesBy(c) == {w \in writes : w.by = c}

RowsBy(c) == {r \in mod_log : r.by = c}

NotesBy(c) == {n \in notes : n.by = c}

NoEffectBy(c) == WritesBy(c) = {} /\ RowsBy(c) = {} /\ NotesBy(c) = {}

WritesOf(id) == {w \in writes : cid[w.by] = id}

RowsOf(id) == {r \in mod_log : cid[r.by] = id}

NotesOf(id) == {n \in notes : cid[n.by] = id}

LedgerIds == {row.ap_id : row \in ledger}

\* The call ran receive (verify returned Ok and the ledger insert was made).
Received(c) == ins[c] # "none"

IsRemove(c) == Delivered(c) /\ ActOf(c).kind = "Delete" /\ is_some(ActOf(c).summary)

IsSelfDelete(c) == Delivered(c) /\ ActOf(c).kind = "Delete" /\ ~is_some(ActOf(c).summary)

VerifyErrors == {"DomainRejected", "ActorMismatch", "Unresolved"}

\* ---------------------------------------------------------------- claims
\* C1 (as amended): over any number of deliveries of one activity id there is
\* at most one entity write, one moderation-log row and one notification; a
\* delivery that returns success means exactly one entity write for that id;
\* and a receive that met the ledger conflict wrote nothing.
C1_Idempotent ==
  /\ \A id \in ActIds :
       /\ Cardinality(WritesOf(id)) <= 1
       /\ Cardinality(RowsOf(id)) <= 1
       /\ Cardinality(NotesOf(id)) <= 1
  /\ \A c \in Calls :
       /\ ins[c] = "Duplicate" => NoEffectBy(c)
       /\ (pc[c] = "Done" /\ result[c] = "Ok") => Cardinality(WritesOf(cid[c])) = 1

\* C1 witness: the same id delivered twice, applied once, the other a conflict.
C1_Witness ==
  \E c1, c2 \in Calls :
    /\ c1 # c2 /\ cid[c1] = cid[c2] /\ Delivered(c1)
    /\ pc[c1] = "Done" /\ result[c1] = "Ok" /\ IsRemove(c1)
    /\ pc[c2] = "Done" /\ ins[c2] = "Duplicate"
    /\ Cardinality(WritesOf(cid[c1])) = 1 /\ Cardinality(RowsOf(cid[c1])) = 1

\* C1 as stated: every activity received twice (neither receive stopped by an
\* unresolved actor, a storage error or a panic) has exactly one entity write.
C1_Original ==
  \A c1, c2 \in Calls :
    ( /\ c1 # c2 /\ cid[c1] = cid[c2] /\ Delivered(c1)
      /\ pc[c1] = "Done" /\ pc[c2] = "Done" /\ Received(c1) /\ Received(c2)
      /\ {result[c1], result[c2]} \subseteq {"Ok", "Conflict", "ObjectNotFound", "Forbidden"} )
    => /\ Cardinality(WritesOf(cid[c1])) = 1
       /\ Cardinality(RowsOf(cid[c1])) <= 1

\* C2: a receive whose ledger insert conflicts returns success to its caller.
C2_DuplicateIsSuccess ==
  \A c \in Calls : (ins[c] = "Duplicate" /\ pc[c] = "Done") => result[c] = "Ok"

\* C3: of the calls delivering one id, exactly one obtains Inserted as soon as
\* any has made its insert; that call goes on to resolve, and every other call
\* produces no entity write, no moderation-log row and no notification.
C3_OneWinner ==
  \A id \in ActIds :
    LET made == {c \in Calls : cid[c] = id /\ Received(c)}
        won  == {c \in made : ins[c] = "Inserted"} IN
    /\ made # {} => Cardinality(won) = 1
    /\ id \in LedgerIds <=> made # {}
    /\ \A c \in made \ won : NoEffectBy(c) /\ pc[c] = "Done"
    /\ \A c \in Calls : (cid[c] = id /\ ~Received(c)) => NoEffectBy(c)

\* C3 witness: two calls raced on one id, the winner applied, the loser did not.
C3_Witness ==
  \E c1, c2 \in Calls :
    /\ c1 # c2 /\ cid[c1] = cid[c2] /\ Delivered(c1)
    /\ ins[c1] = "Inserted" /\ ins[c2] = "Duplicate"
    /\ WritesBy(c1) # {} /\ NoEffectBy(c2)
    /\ ActOf(c1).kind = "UndoFollow"

\* C4: every entity write, moderation-log row and notification belongs to a
\* call whose own ledger insert succeeded and whose row is in the ledger; a
\* call is in its apply steps only after that.
C4_InsertFirst ==
  \A c \in Calls :
    (~NoEffectBy(c) \/ pc[c] \in {"Resolving", "Creating", "Updating", "Notifying"})
    => (ins[c] = "Inserted" /\ cid[c] \in LedgerIds)

\* C4 witness: an Undo-Follow and a moderator-remove both past their insert
\* with effects made.
C4_Witness ==
  \E c1, c2 \in Calls :
    /\ Delivered(c1) /\ Delivered(c2)
    /\ ActOf(c1).kind = "UndoFollow" /\ WritesBy(c1) # {}
    /\ IsRemove(c2) /\ RowsBy(c2) # {} /\ NotesBy(c2) # {}

\* The id's or the actor's domain is a remote domain on the blocklist.
Blocked(a) ==
  \/ a.id_domain \in site.blocklist /\ a.id_domain # LocalDomain
  \/ PersonDomain(a.actor) \in site.blocklist /\ PersonDomain(a.actor) # LocalDomain

\* C5: an activity from a blocked domain never gets past verify, and a call
\* whose verify failed inserted no ledger row and made no entity write,
\* moderation-log row or notification.
C5_VerifyFailsNoEffect ==
  /\ \A id \in ActIds :
       Blocked(act[id]) =>
         /\ id \notin LedgerIds
         /\ WritesOf(id) = {} /\ RowsOf(id) = {} /\ NotesOf(id) = {}
         /\ \A c \in Calls :
              (cid[c] = id /\ pc[c] # "Verifying") =>
                (pc[c] = "Done" /\ result[c] \in VerifyErrors)
  /\ \A c \in Calls :
       result[c] \in VerifyErrors =>
         (pc[c] = "Done" /\ ins[c] = "none" /\ NoEffectBy(c))

\* C5 witness: a Delete from the blocked domain was rejected while the other
\* call applied its activity.
C5_Witness ==
  \E c1, c2 \in Calls :
    /\ Delivered(c1) /\ Blocked(ActOf(c1)) /\ ActOf(c1).kind = "Delete"
    /\ pc[c1] = "Done" /\ result[c1] = "DomainRejected"
    /\ pc[c2] = "Done" /\ result[c2] = "Ok"

\* C6: a Delete with a summary, empty or not, goes to the remove engine and
\* never to self-delete; the row it writes stores None for the empty string
\* and Some(r) otherwise; when it succeeds the row exists; the empty string
\* is never in the moderation log.
C6_ReasonNormalized ==
  /\ \A r \in mod_log : r.reason # Some("")
  /\ \A c \in Calls :
       IsRemove(c) =>
         /\ \A w \in WritesBy(c) : w.store = "removed"
         /\ \A r \in RowsBy(c) :
              r.reason = (IF ActOf(c).summary = Some("") THEN None ELSE ActOf(c).summary)
         /\ pc[c] \in {"Updating", "Notifying"} => Cardinality(RowsBy(c)) = 1
         /\ (pc[c] = "Done" /\ result[c] = "Ok") => Cardinality(RowsBy(c)) = 1

\* C6 witness: a remove with the empty summary and one with "spam" both wrote
\* their row.
C6_Witness ==
  \E c1, c2 \in Calls :
    /\ IsRemove(c1) /\ ActOf(c1).summary = Some("")
    /\ \E r \in RowsBy(c1) : r.reason = None
    /\ IsRemove(c2) /\ ActOf(c2).summary = Some("spam")
    /\ \E r \in RowsBy(c2) : r.reason = Some("spam")

\* C7: a Delete without summary never enters the remove engine, writes no
\* moderation-log row and no notification for any object kind, and its only
\* entity write is the deleted flag: the removed flag of its object is true
\* only if a remove wrote it.
C7_SelfDelete ==
  \A c \in Calls :
    IsSelfDelete(c) =>
      /\ pc[c] \notin {"Creating", "Notifying"}
      /\ RowsBy(c) = {} /\ NotesBy(c) = {}
      /\ result[c] \notin {"Forbidden", "Panic", "ActorNotFound"}
      /\ \A w \in WritesBy(c) : w.store = "deleted" /\ deleted[w.target]
      /\ (pc[c] = "Done" /\ result[c] = "Ok") =>
           /\ deleted[ActOf(c).object]
           /\ removed[ActOf(c).object] =>
                \E w \in writes : w.store = "removed" /\ w.target = ActOf(c).object
                                    /\ IsRemove(w.by)

\* C7 witness: a self-delete succeeded and the object is deleted, not removed.
C7_Witness ==
  \E c \in Calls :
    /\ IsSelfDelete(c) /\ pc[c] = "Done" /\ result[c] = "Ok"
    /\ deleted[ActOf(c).object] /\ ~removed[ActOf(c).object]
    /\ mod_log = {}

IsLocalCommunity(o) == o \in Communities /\ community_local(o)

\* C8: a Delete with a summary on a local community, once its object is
\* resolved, returns Forbidden; it writes no moderation-log row, makes no
\* entity write and requests no notification, and no local community is ever
\* marked removed.
C8_AuthorityGuard ==
  /\ \A o \in Communities : community_local(o) => ~removed[o]
  /\ \A r \in mod_log : ~IsLocalCommunity(r.target)
  /\ \A n \in notes : ~IsLocalCommunity(n.entity)
  /\ \A c \in Calls :
       (IsRemove(c) /\ IsLocalCommunity(ActOf(c).object)) =>
         /\ NoEffectBy(c)
         /\ pc[c] \notin {"Creating", "Updating", "Notifying"}
         /\ result[c] # "Ok"
         /\ (pc[c] = "Done" /\ Received(c)
               /\ result[c] \notin {"Conflict", "ActorNotFound"})
            => result[c] = "Forbidden"

\* C8 witness: a remove of the local community returned Forbidden.
C8_Witness ==
  \E c \in Calls :
    /\ IsRemove(c) /\ IsLocalCommunity(ActOf(c).object)
    /\ pc[c] = "Done" /\ result[c] = "Forbidden"

\* C9: a moderator-remove whose object resolves to a private message returns
\* the error value NotImplemented, without effects.
C9_PrivateMessageNotImplemented ==
  \A c \in Calls :
    ( /\ IsRemove(c) /\ ActOf(c).object \in PrivateMessages
      /\ pc[c] = "Done" /\ Received(c)
      /\ result[c] \notin {"Conflict", "ActorNotFound"} )
    => (result[c] = "NotImplemented" /\ NoEffectBy(c))

\* C10: after the remove engine has returned, the call's moderation-log row
\* exists exactly when the call flipped the removed flag.
C10_Transactional ==
  \A c \in Calls :
    (IsRemove(c) /\ pc[c] = "Done") =>
      ((RowsBy(c) # {}) <=> (\E w \in WritesBy(c) : w.store = "removed"))

\* ---------------------------------------------------------------- policy claims
\* Federation is enabled in the instance tables (a missing LocalSite counts as enabled).
FedOn ==
  IF is_some(site.local_site) THEN unwrap(site.local_site).federation_enabled ELSE TRUE

\* The results computed so far for the query.
Verdicts == {verdict.plain, verdict.strict, verdict.permissive} \ {"none"}

Remote == query.domain # LocalDomain

Eligible == Remote /\ FedOn /\ query.scheme = Settings.protocol

\* C11 (as amended): every remote domain on the blocklist is denied, whatever
\* the allowlist, the federation flag and the mode; with federation enabled
\* and a matching scheme the reason is the block, even when the domain is
\* also on the allowlist.
C11_BlockPrecedence ==
  (query.domain \in site.blocklist /\ Remote) =>
    \A v \in Verdicts :
      /\ v # "Ok"
      /\ Eligible => v = "Domain is blocked"

\* C11 witness: a domain on both lists was evaluated in both modes and blocked.
C11_Witness ==
  /\ query.domain \in site.blocklist /\ query.domain \in site.allowlist /\ Remote
  /\ verdict.strict = "Domain is blocked" /\ verdict.permissive = "Domain is blocked"

\* C11 as stated: every domain on the blocklist is denied.
C11_Original ==
  query.domain \in site.blocklist => \A v \in Verdicts : v # "Ok"

\* C12: the local domain is allowed by every policy function, for every
\* content of the tables, every scheme and both modes.
C12_LocalBypass ==
  query.domain = LocalDomain => \A v \in Verdicts : v = "Ok"

\* C12 witness: the local domain is blocked, missing from a non-empty
\* allowlist, federation is off, the scheme differs, and it is allowed.
C12_Witness ==
  /\ query.domain = LocalDomain /\ LocalDomain \in site.blocklist
  /\ site.allowlist = {GoodDomain} /\ ~FedOn /\ query.scheme = "http"
  /\ verdict.strict = "Ok" /\ verdict.permissive = "Ok" /\ verdict.plain = "Ok"

\* C13: an eligible domain that is not blocked and is missing from a present
\* allowlist is denied with the strict reason in strict mode and with the
\* allowlist reason in permissive mode.
C13_StrictReason ==
  ( /\ Eligible /\ query.domain \notin site.blocklist
    /\ site.allowlist # {} /\ query.domain \notin site.allowlist )
  => /\ verdict.strict # "none" =>
          verdict.strict = "Federation forbidden by strict allowlist"
     /\ verdict.permissive # "none" =>
          verdict.permissive = "Domain is not in allowlist"

\* C14: an empty allowlist restricts nothing and an empty blocklist blocks
\* nothing: with the allowlist empty every eligible domain that is not blocked
\* is allowed by every policy function.
C14_EmptyListsUnrestricted ==
  /\ site.allowlist = {} =>
       /\ \A v \in Verdicts : v \notin {"Domain is not in allowlist",
                                        "Federation forbidden by strict allowlist"}
       /\ (Eligible /\ query.domain \notin site.blocklist) =>
            \A v \in Verdicts : v = "Ok"
  /\ site.blocklist = {} => \A v \in Verdicts : v # "Domain is blocked"

\* C14 witness: both tables empty, a remote domain allowed in both modes.
C14_Witness ==
  /\ site.allowlist = {} /\ site.blocklist = {} /\ Eligible
  /\ verdict.strict = "Ok" /\ verdict.permissive = "Ok" /\ verdict.plain = "Ok"

IsUndoFollow(c) == Delivered(c) /\ ActOf(c).kind = "UndoFollow"

Mismatch(a) == a.kind = "UndoFollow" /\ a.actor # a.inner_actor

\* C15: an Undo-Follow whose outer actor differs from the inner Follow's actor
\* fails verify with ActorMismatch, also when its followee does not resolve;
\* no ledger row is inserted for it and no relationship is removed.
C15_ActorMismatch ==
  \A id \in ActIds :
    Mismatch(act[id]) =>
      /\ id \notin LedgerIds
      /\ WritesOf(id) = {}
      /\ \A c \in Calls :
           (cid[c] = id /\ pc[c] # "Verifying") =>
             (pc[c] = "Done" /\ result[c] = "ActorMismatch" /\ ins[c] = "none")

\* C15 witness: a mismatched Undo-Follow of an unresolvable followee and one
\* of comm_remote were both rejected, and p1 still follows comm_remote.
C15_Witness ==
  \E c1, c2 \in Calls :
    /\ IsUndoFollow(c1) /\ Mismatch(ActOf(c1)) /\ ActOf(c1).object = "missing"
    /\ result[c1] = "ActorMismatch"
    /\ IsUndoFollow(c2) /\ Mismatch(ActOf(c2)) /\ ActOf(c2).object = "comm_remote"
    /\ result[c2] = "ActorMismatch"
    /\ <<"comm_remote", "p1">> \in community_follower

Unfollowed == {<<w.target, ActOf(w.by).actor>> : w \in {x \in writes : x.store = "unfollow"}}

\* C16: the follower stores are the initial ones minus exactly the pairs that
\* an Undo-Follow has unfollowed, so an unfollow of a pair with no relationship
\* changes nothing, a second unfollow of a pair changes nothing more, and no
\* other relationship is touched; an Undo-Follow never fails for want of a
\* relationship, and after its success the pair is absent.
C16_UnfollowIdempotent ==
  /\ person_follower = PersonFollower0 \ Unfollowed
  /\ community_follower = CommunityFollower0 \ Unfollowed
  /\ \A c \in Calls :
       (IsUndoFollow(c) /\ pc[c] = "Done" /\ Received(c)) =>
         /\ result[c] \in {"Ok", "Conflict", "ActorNotFound", "StorageFailure"}
         /\ result[c] = "Ok" =>
              <<ActOf(c).object, ActOf(c).actor>> \notin (person_follower \cup community_follower)

\* C16 witness: the same unfollow applied under two activity ids, both
\* successful: the second met no relationship and changed nothing.
C16_Witness ==
  \E c1, c2 \in Calls :
    /\ c1 # c2 /\ cid[c1] # cid[c2]
    /\ IsUndoFollow(c1) /\ IsUndoFollow(c2)
    /\ ActOf(c1).object = "comm_remote" /\ ActOf(c2).object = "comm_remote"
    /\ result[c1] = "Ok" /\ result[c2] = "Ok"
    /\ community_follower = {<<"comm_remote", "p2">>}
    /\ person_follower = PersonFollower0

\* C17: the ledger never holds two entries with one ap_id, and every step
\* keeps every entry as it is: the set of entries only grows.
C17_LedgerPermanent ==
  /\ [](\A r1, r2 \in ledger : r1.ap_id = r2.ap_id => r1 = r2)
  /\ [][ledger \subseteq ledger']_vars

\* C17 witness: an entry exists and a later insert of its ap_id met the conflict.
C17_Witness ==
  /\ Cardinality(ledger) = 1
  /\ \E c1, c2 \in Calls :
       /\ ins[c1] = "Inserted" /\ ins[c2] = "Duplicate" /\ pc[c1] = "Done"
       /\ \E row \in ledger : row.ap_id = cid[c2] /\ row.data = ActOf(c2)
                                /\ row.local = Some(FALSE) /\ row.updated = None

\* ---------------------------------------------------------------- state machine
\* The stage of spec §4.1 a call is in.
Stage(c) ==
  IF pc[c] = "Idle" THEN "NotDelivered"
  ELSE IF pc[c] \in {"Verifying", "Deduplicating", "Resolving"} THEN pc[c]
  ELSE IF pc[c] \in {"Creating", "Updating", "Notifying"} THEN "Applying"
  ELSE IF result[c] \in VerifyErrors THEN "Rejected"
  ELSE IF result[c] = "Conflict" THEN "DuplicateNoOp"
  ELSE IF result[c] \in {"ObjectNotFound", "ActorNotFound"} THEN "NotFound"
  ELSE IF result[c] = "Ok" THEN "Applied"
  ELSE IF result[c] \in {"Forbidden", "StorageFailure", "NotImplemented"} THEN "Failed"
  ELSE "Crashed"

Terminal == {"Rejected", "DuplicateNoOp", "NotFound", "Applied", "Failed"}

\* The edges of the per-activity state machine.
StageEdges ==
  {<<"NotDelivered", "Verifying">>}
  \cup ({"Verifying"} \X {"Rejected", "Deduplicating"})
  \cup ({"Deduplicating"} \X {"DuplicateNoOp", "Resolving"})
  \cup ({"Resolving"} \X {"NotFound", "Applying", "Failed"})
  \cup ({"Applying"} \X {"Applying", "Applied", "Failed"})

\* C18: every call is in a stage of the state machine, its terminal outcome is
\* one of Rejected, DuplicateNoOp, NotFound, Applied or a failure reported to
\* the caller, and it is in Applying only after its own insert succeeded.
C18_StateMachine ==
  \A c \in Calls :
    /\ Stage(c) \in {"NotDelivered", "Verifying", "Deduplicating", "Resolving", "Applying"}
                      \cup Terminal
    /\ Stage(c) = "Applying" => ins[c] = "Inserted"
    /\ pc[c] = "Done" <=> Stage(c) \in Terminal

\* C18, order: each step of a call follows an edge of the state machine, and
\* a call that has returned takes no further step.
C18_Order ==
  [][\A c \in Calls :
       \/ Stage(c)' = Stage(c) /\ pc'[c] = pc[c] /\ result'[c] = result[c]
       \/ <<Stage(c), Stage(c)'>> \in StageEdges
       \/ Stage(c) = "Resolving" /\ Stage(c)' = "Crashed"]_vars

\* C18, progress: every delivered call returns.
C18_Terminates == \A c \in Calls : Delivered(c) ~> pc[c] = "Done"

\* ---------------------------------------------------------------- remove order
\* The moderation table and the operation code that belong to an object's kind.
RemoveNames(o) ==
  IF o \in Posts THEN <<"ModRemovePost", "RemovePost">>
  ELSE IF o \in Comments THEN <<"ModRemoveComment", "RemoveComment">>
  ELSE <<"ModRemoveCommunity", "RemoveCommunity">>

\* C19: a moderator-remove writes its row, then sets removed, then requests
\* the notification; a successful one leaves exactly one row naming the
\* moderator and the target, removed set on entities that a remove wrote and
\* no other, and exactly one notification of the matching kind; no
\* notification exists for a call whose write failed.
C19_RemoveOrder ==
  /\ \A e \in Entities :
       removed[e] <=> \E w \in writes : w.store = "removed" /\ w.target = e
  /\ \A c \in Calls :
       IsRemove(c) =>
         LET o == ActOf(c).object IN
         /\ pc[c] \in {"Idle", "Verifying", "Deduplicating", "Resolving", "Creating"}
              => NoEffectBy(c)
         /\ pc[c] = "Updating" =>
              (Cardinality(RowsBy(c)) = 1 /\ WritesBy(c) = {} /\ NotesBy(c) = {})
         /\ pc[c] = "Notifying" =>
              (Cardinality(RowsBy(c)) = 1 /\ Cardinality(WritesBy(c)) = 1
                 /\ removed[o] /\ NotesBy(c) = {})
         /\ NotesBy(c) # {} => (WritesBy(c) # {} /\ pc[c] = "Done" /\ result[c] = "Ok")
         /\ WritesBy(c) # {} => RowsBy(c) # {}
         /\ (pc[c] = "Done" /\ result[c] = "Ok") =>
              /\ RowsBy(c) = {[table |-> RemoveNames(o)[1], mod_person_id |-> ActOf(c).actor,
                               target |-> o, removed |-> Some(TRUE),
                               reason |-> (IF ActOf(c).summary = Some("") THEN None
                                           ELSE ActOf(c).summary),
                               by |-> c]}
              /\ WritesBy(c) = {[by |-> c, store |-> "removed", target |-> o]}
              /\ removed[o]
              /\ NotesBy(c) = {[op |-> RemoveNames(o)[2], entity |-> o, by |-> c]}

\* C19 witness: a comment and a non-local community were removed, each with
\* its row, its flag and its notification, and the post is untouched.
C19_Witness ==
  \E c1, c2 \in Calls :
    /\ IsRemove(c1) /\ ActOf(c1).object = "comment_c1" /\ result[c1] = "Ok"
    /\ IsRemove(c2) /\ ActOf(c2).object = "comm_remote" /\ result[c2] = "Ok"
    /\ Cardinality(mod_log) = 2 /\ Cardinality(notes) = 2
    /\ removed["comment_c1"] /\ removed["comm_remote"] /\ ~removed["post_p1"]

\* ---------------------------------------------------------------- failure after insert
\* Errors receive returns after its ledger insert succeeded.
PostInsertErrors == {"ActorNotFound", "ObjectNotFound", "Forbidden", "StorageFailure"}

\* The call inserted the ledger row of its id and then returned an error.
FailedAfterInsert(c) ==
  pc[c] = "Done" /\ ins[c] = "Inserted" /\ result[c] \in PostInsertErrors

\* Activity ids whose receive failed after the insert.
Burnt == {cid[c] : c \in {d \in Calls : FailedAfterInsert(d)}}

\* C21: when receive has inserted the ledger row and then failed (actor or
\* object unresolved, Forbidden, storage failure) the row stays in the ledger;
\* every other receive of that id met the conflict, returned it and made no
\* write, row or notification; each id has at most one write, one row and one
\* notification; and no step taken after such a failure adds a write, a
\* moderation-log row or a notification for that id or inserts for it again.
C21_FailureKeepsId ==
  /\ [](\A c \in Calls : FailedAfterInsert(c) =>
          /\ \E row \in ledger : row.ap_id = cid[c] /\ row.data = ActOf(c)
          /\ Cardinality(WritesOf(cid[c])) <= 1
          /\ Cardinality(RowsOf(cid[c])) <= 1
          /\ Cardinality(NotesOf(cid[c])) <= 1
          /\ \A d \in Calls \ {c} :
               (cid[d] = cid[c] /\ Received(d)) =>
                 /\ ins[d] = "Duplicate" /\ pc[d] = "Done"
                 /\ result[d] = "Conflict" /\ NoEffectBy(d))
  /\ [][\A id \in Burnt :
          /\ id \in LedgerIds'
          /\ {w \in writes' : cid'[w.by] = id} = WritesOf(id)
          /\ {r \in mod_log' : cid'[r.by] = id} = RowsOf(id)
          /\ {n \in notes' : cid'[n.by] = id} = NotesOf(id)
          /\ \A d \in Calls : (cid[d] = id /\ ins'[d] # ins[d]) => ins'[d] = "Duplicate"]_vars

\* C21 witness: a remove of the local community inserted its row and was
\* Forbidden; another delivery of the same id met the conflict with no effect,
\* and the community is not removed.
C21_Witness ==
  \E c1, c2 \in Calls :
    /\ c1 # c2 /\ cid[c1] = cid[c2] /\ Delivered(c1)
    /\ FailedAfterInsert(c1) /\ result[c1] = "Forbidden"
    /\ pc[c2] = "Done" /\ ins[c2] = "Duplicate" /\ result[c2] = "Conflict"
    /\ cid[c1] \in LedgerIds /\ Cardinality(ledger) = 1
    /\ NoEffectBy(c1) /\ NoEffectBy(c2) /\ ~removed["comm_local"]

====
